---------------------------- MODULE Spec2Model ----------------------------
(***************************************************************************)
(* A state-machine model of the iac-visualizer parsers:                    *)
(*   parsers/terraform/parser.py   TerraformParser                         *)
(*   parsers/kubernetes/parser.py  KubernetesParser                        *)
(*   parsers/helm/parser.py        HelmParser                              *)
(*   graph/models.py               Node, Edge, ResourceGraph               *)
(* and of the upload handlers of server/app.py.                            *)
(*                                                                         *)
(* Strings that the code splits on '.' (Terraform addresses, references)   *)
(* are sequences of their dot-free segments, so that '.'.join and          *)
(* split('.') are sequence operations.  A string leaf of an attribute tree *)
(* is a sequence of tokens: an interpolation ${...}, a bare dotted word,   *)
(* or other text.  Node ids, which the code formats with f-strings from    *)
(* separator-free components, are records of those components.            *)
(***************************************************************************)
EXTENDS Integers, Sequences, FiniteSets, TLC

VARIABLES
    family,      \* what this run exercises: a parser ("tf", "k8s", "helm"),
                 \* reference extraction ("extract"), the container ("graph"),
                 \* the inference passes ("passes") or a handler ("server")
    plan,        \* plan_json['resource_changes'] (parse_plan's input)
    tpc,         \* TerraformParser position: "create", "infer", "done", or
                 \* "error" when parse_plan has raised ValueError
    ti,          \* index of the next resource / node the current loop takes
    tnodes,      \* self.graph.nodes
    tedges,      \* self.graph.edges
    tcache,      \* self._resource_cache: address spelling -> node id
    tread,       \* TRUE once _resource_cache has been read in this run
    tpasses,     \* how many times _find_implicit_dependencies has completed
    tfirst,      \* the edge list as it was when the first pass completed
    tcalls,      \* how many times parse_plan has been called on this parser
    tprev,       \* the ResourceGraph self.graph named before the last call
                 \* that replaced it, as that object is now
    tret,        \* that graph as it was when its call returned it
    files,       \* the documents of each file given to parse_files
    kpc,         \* KubernetesParser position
    kf,          \* index of the file _parse_file is called for next
    knodes,      \* self.graph.nodes
    kedges,      \* self.graph.edges
    kcache,      \* self._resource_cache: the set of keys registered
    kread,       \* TRUE once _resource_cache has been read in this run
    kpasses,     \* how many times _infer_relationships has completed
    kfirst,      \* the edge list as it was when the first pass completed
    kcalls,      \* how many times parse_files has been called on this parser
    kprev,       \* the ResourceGraph self.graph named before the last call
    kret,        \* that graph as it was when its call returned it
    chart,       \* the Helm collaborators' answers: rendered output, Chart.yaml
    hpc,         \* HelmParser position
    hi,          \* index of the next node / edge the merge loop takes
    hnodes,      \* self.graph.nodes of the Helm parser
    hedges,      \* self.graph.edges of the Helm parser
    hmeta,       \* the keys of self.graph.meta of the Helm parser
    leaf,        \* the string given to _extract_references_from_string
    epc,         \* position of that call: "call" or "done"
    extracted,   \* the references the call returned
    graph,       \* a ResourceGraph: [nodes, edges, meta]
    order,       \* the inference passes run so far, in the order they ran
    request,     \* the upload request a handler of server/app.py is given
    spc,         \* the handler's position
    si,          \* index of the next upload the handler saves
    temp_paths,  \* the temporary files the handler's finally block will see
    disk,        \* the temporary files and directories that exist
    status       \* the status of the handler's response, 0 before it

tvars == <<plan, tpc, ti, tnodes, tedges, tcache, tread, tpasses, tfirst, tcalls, tprev, tret>>
kvars == <<files, kpc, kf, knodes, kedges, kcache, kread, kpasses, kfirst, kcalls, kprev, kret>>
hvars == <<chart, hpc, hi, hnodes, hedges, hmeta>>
evars == <<leaf, epc, extracted>>
gvars == <<graph>>
ovars == <<order>>
svars == <<request, spc, si, temp_paths, disk, status>>
vars == <<family, tvars, kvars, hvars, evars, gvars, ovars, svars>>

\* ---------------------------------------------------------------- bounds
MaxResources == 3
MaxDocs == 2
MaxCalls == 2
MaxTokens == 2
MaxGraph == 2
MaxPassDocs == 4
MaxUploads == 3

None == [none |-> TRUE]

\* All sequences over S of length 0..n.
SeqsUpTo(S, n) == UNION {[1..k -> S] : k \in 0..n}

RECURSIVE Concat(_)
\* The concatenation of a sequence of sequences.
Concat(ss) == IF ss = <<>> THEN <<>> ELSE Head(ss) \o Concat(Tail(ss))

Range(s) == {s[k] : k \in DOMAIN s}

\* dict assignment d[k] = v on a dict held as a function
Put(d, k, v) == [x \in (DOMAIN d) \cup {k} |-> IF x = k THEN v ELSE d[x]]


\* ------------------------------------------------- Terraform: references
\* Tokens of a string leaf.  Interp(p) is the text ${p1.p2...}; Bare(p) is
\* the dotted word p1.p2... outside any ${}; Text is anything else.
Interp(p) == [k |-> "interp", v |-> p]
Bare(p) == [k |-> "bare", v |-> p]
Text == [k |-> "text", v |-> <<>>]

\* JSON values of an attribute tree.  A dict is held as the sequence of its
\* values in items() order (the scan never looks at the keys).
Str(toks) == [k |-> "str", v |-> toks]
Dict(vals) == [k |-> "dict", v |-> vals]
List(vals) == [k |-> "list", v |-> vals]
Other == [k |-> "other", v |-> <<>>]

\* Segments made of digits only (str.isdigit), and segments that start with a
\* letter and contain an underscore (_is_likely_reference's test), among the
\* segments the model's inputs use.
DigitSegs == {"10"}
UnderscoreSegs == {"aws_vpc", "aws_subnet", "aws_route", "aws_instance"}

\* _clean_reference returns None for a candidate that is no reference; a
\* reference is never the empty string, so the empty sequence stands for it.
NoRef == <<>>

\* _clean_reference with a bug: the var/local branch is missing, so a
\* variable is cleaned like a resource address.
CleanReferenceKeepVars(parts) ==
    IF parts = <<>> \/ (Len(parts) = 1 /\ parts[1] \in DigitSegs) THEN NoRef
    ELSE IF Len(parts) < 2 \/ parts[1] \in {"true", "false", "null"} THEN NoRef
    ELSE IF parts[1] = "module"
         THEN IF Len(parts) >= 4 THEN SubSeq(parts, 1, 4) ELSE NoRef
    ELSE IF parts[1] = "data"
         THEN IF Len(parts) >= 3 THEN SubSeq(parts, 1, 3) ELSE NoRef
    ELSE SubSeq(parts, 1, 2)

\* _clean_reference: the canonical reference of a dotted candidate, or NoRef.
CleanReference(parts) ==
    IF parts = <<>> \/ (Len(parts) = 1 /\ parts[1] \in DigitSegs) THEN NoRef
    ELSE IF Len(parts) < 2 \/ parts[1] \in {"true", "false", "null"} THEN NoRef
    ELSE IF parts[1] = "module"
         THEN IF Len(parts) >= 4 THEN SubSeq(parts, 1, 4) ELSE NoRef
    ELSE IF parts[1] = "data"
         THEN IF Len(parts) >= 3 THEN SubSeq(parts, 1, 3) ELSE NoRef
    ELSE IF parts[1] \in {"var", "local"} THEN NoRef
    ELSE SubSeq(parts, 1, 2)

\* _is_likely_reference
IsLikelyReference(parts) ==
    IF Len(parts) < 2 THEN FALSE
    ELSE IF parts[1] \in {"module", "data"} THEN TRUE
    ELSE parts[1] \in UnderscoreSegs

\* re.findall(interpolation_pattern, value): the inner text of every ${...}
InterpolationMatches(toks) ==
    {toks[n].v : n \in {m \in DOMAIN toks : toks[m].k = "interp" /\ toks[m].v # <<>>}}

\* re.findall(direct_pattern, value): every dotted word of the string, the
\* ones inside a ${...} included (the pattern does not look at the braces).
DirectMatches(toks) ==
    {toks[n].v : n \in {m \in DOMAIN toks : toks[m].k \in {"interp", "bare"} /\ Len(toks[m].v) >= 2}}

\* _extract_references_from_string, as the set it builds.  The guard
\* len(value) < 3 only drops strings too short to hold a dotted word.
ExtractReferences(toks) ==
    LET fromInterp == {CleanReference(m) : m \in InterpolationMatches(toks)} \ {NoRef}
        likely == {m \in DirectMatches(toks) : IsLikelyReference(m)}
        fromDirect == {CleanReference(m) : m \in likely} \ {NoRef}
    IN  IF fromInterp # {} THEN fromInterp ELSE fromDirect

RECURSIVE ScanAttributes(_), ScanListItems(_)
\* _scan_attributes_for_references over a dict's values: the reference set of
\* every string leaf it reaches, in the order it reaches them.
ScanAttributes(vals) ==
    IF vals = <<>> THEN <<>>
    ELSE LET x == Head(vals)
             here == CASE x.k = "str" -> <<ExtractReferences(x.v)>>
                       [] x.k = "dict" -> ScanAttributes(x.v)
                       [] x.k = "list" -> ScanListItems(x.v)
                       [] OTHER -> <<>>
         IN  here \o ScanAttributes(Tail(vals))

\* the loop over the items of a list value (lines 110-116)
ScanListItems(items) ==
    IF items = <<>> THEN <<>>
    ELSE LET x == Head(items)
             here == CASE x.k = "dict" -> ScanAttributes(x.v)
                       [] x.k = "str" -> <<ExtractReferences(x.v)>>
                       [] OTHER -> <<>>
         IN  here \o ScanListItems(Tail(items))

RECURSIVE Perms(_)
\* list(references): a set's elements in any order.
Perms(S) ==
    IF S = {} THEN {<<>>}
    ELSE UNION {{<<x>> \o p : p \in Perms(S \ {x})} : x \in S}

RECURSIVE Orders(_)
\* Every order in which the references of a sequence of leaves can be taken.
Orders(sets) ==
    IF sets = <<>> THEN {<<>>}
    ELSE {p \o r : p \in Perms(Head(sets)), r \in Orders(Tail(sets))}

\* ------------------------------------------------- Terraform: resolution
TFNodeId(type, address) == [fam |-> "tf", type |-> type, addr |-> address]

Root == <<"root">>

\* The first node of the graph with this id (next(... for node in nodes ...)).
FirstNodeWithId(nodes, id) ==
    LET hits == {n \in DOMAIN nodes : nodes[n].id = id}
    IN  IF hits = {} THEN None
        ELSE nodes[CHOOSE n \in hits : \A m \in hits : n <= m]

\* target_address.startswith('module.')
StartsWithModule(address) == Len(address) >= 2 /\ address[1] = "module"

\* _find_target_node with a bug: on a cache miss the target's id is built
\* from the address instead of being looked up.
FindTargetNodeUnchecked(nodes, cache, source_node_id, target_address) ==
    IF target_address \in DOMAIN cache THEN cache[target_address]
    ELSE TFNodeId(target_address[1], target_address)

\* _find_target_node
FindTargetNode(nodes, cache, source_node_id, target_address) ==
    IF target_address \in DOMAIN cache THEN cache[target_address]
    ELSE LET source_node == FirstNodeWithId(nodes, source_node_id)
         IN  IF source_node = None THEN None
             ELSE IF StartsWithModule(target_address) THEN None
             ELSE IF source_node.namespace # Root
                      /\ (source_node.namespace \o target_address) \in DOMAIN cache
                  THEN cache[source_node.namespace \o target_address]
             ELSE None

Edge(from, to, reason) == [from_id |-> from, to_id |-> to, reason |-> reason]

\* _add_dependency_edge with a bug: the existing-edge check is left out.
AddDependencyEdgeNoCheck(nodes, cache, edges, source_node_id, target_address, reason) ==
    LET target_node_id == FindTargetNode(nodes, cache, source_node_id, target_address)
    IN  IF target_node_id = None THEN edges
        ELSE Append(edges, Edge(source_node_id, target_node_id, reason))

\* _add_dependency_edge: the edge list after the call.
AddDependencyEdge(nodes, cache, edges, source_node_id, target_address, reason) ==
    LET target_node_id == FindTargetNode(nodes, cache, source_node_id, target_address)
        e == Edge(source_node_id, target_node_id, reason)
    IN  IF target_node_id = None THEN edges
        ELSE IF \E n \in DOMAIN edges : edges[n] = e THEN edges
        ELSE Append(edges, e)

RECURSIVE AddDependencyEdges(_, _, _, _, _, _)
\* _add_dependency_edge called for each address of a list in turn.
AddDependencyEdges(nodes, cache, edges, source_node_id, targets, reason) ==
    IF targets = <<>> THEN edges
    ELSE AddDependencyEdges(nodes, cache,
              AddDependencyEdge(nodes, cache, edges, source_node_id, Head(targets), reason),
              source_node_id, Tail(targets), reason)

\* ------------------------------------------------- Terraform: the inputs
VpcAddr == <<"aws_vpc", "main">>
SubnetAddr == <<"aws_subnet", "public">>
Network == <<"module", "network">>

Resource(type, address, module_address, actions, depends_on, after) ==
    [type |-> type, address |-> address, module_address |-> module_address,
     actions |-> actions, depends_on |-> depends_on, after |-> after]

\* a resource with no dependencies
ResVpc ==
    Resource("aws_vpc", VpcAddr, <<>>, <<"create">>, <<>>, Dict(<<Str(<<Text>>), Other>>))

\* a resource whose attribute interpolates an attribute of ResVpc
ResSubnet ==
    Resource("aws_subnet", SubnetAddr, <<>>, <<"create">>, <<>>,
             Dict(<<Str(<<Interp(VpcAddr \o <<"id">>)>>)>>))

\* the same reference from a resource whose change carries no actions
ResSubnetNoActions ==
    Resource("aws_subnet", <<"aws_subnet", "private">>, <<>>, <<>>, <<>>,
             Dict(<<Str(<<Interp(VpcAddr \o <<"id">>)>>)>>))

\* the same reference, held in a list that is an item of a list
ResSubnetNested ==
    Resource("aws_subnet", <<"aws_subnet", "nested">>, <<>>, <<"create">>, <<>>,
             Dict(<<List(<<List(<<Str(<<Interp(VpcAddr \o <<"id">>)>>)>>)>>)>>))

\* depends_on names ResVpc twice; the attributes name it in an interpolation,
\* in a bare word of a nested dict and in a list item that names ResSubnet
\* too, name ResSubnet in a list that is itself a list item, and name
\* module.network.aws_subnet.public in an interpolation
ResInstance ==
    Resource("aws_instance", <<"aws_instance", "web">>, <<>>, <<"update">>,
             <<VpcAddr, VpcAddr>>,
             Dict(<<Str(<<Interp(VpcAddr \o <<"id">>)>>),
                    Str(<<Interp(Network \o SubnetAddr \o <<"id">>)>>),
                    Dict(<<Str(<<Text, Bare(VpcAddr \o <<"arn">>)>>)>>),
                    List(<<Str(<<Interp(VpcAddr \o <<"id">>), Interp(<<"var", "x">>),
                                 Interp(SubnetAddr \o <<"id">>)>>),
                           List(<<Str(<<Interp(SubnetAddr \o <<"id">>)>>)>>)>>)>>))

\* a resource of module.network registered under its bare address; its change
\* is a delete, so its post-change value is null
ResModSubnet ==
    Resource("aws_subnet", SubnetAddr, Network, <<"delete">>, <<>>, Other)

\* a resource of module.network whose address carries the module path, as
\* terraform show -json writes it
ResQualSubnet ==
    Resource("aws_subnet", Network \o SubnetAddr, Network, <<"create">>, <<>>, Dict(<<>>))

\* a resource of module.network that names the bare address aws_subnet.public
ResModRoute ==
    Resource("aws_route", <<"aws_route", "r">>, Network, <<"create">>, <<SubnetAddr>>,
             Dict(<<Str(<<Interp(SubnetAddr \o <<"id">>)>>)>>))

\* the same type and address as ResModRoute, in the root module
ResRootRoute ==
    Resource("aws_route", <<"aws_route", "r">>, <<>>, <<"create">>, <<>>,
             Dict(<<Str(<<Interp(VpcAddr \o <<"id">>)>>)>>))

TFResources ==
    {ResVpc, ResSubnet, ResSubnetNoActions, ResSubnetNested, ResInstance, ResModSubnet,
     ResQualSubnet, ResModRoute, ResRootRoute}

\* ------------------------------------------------- Terraform: the parser
\* the Node that _process_resource builds (lines 44-67): the fields the
\* parser reads back
TFNode(r) ==
    [id |-> TFNodeId(r.type, r.address),
     type |-> r.type,
     namespace |-> IF r.module_address # <<>> THEN r.module_address ELSE Root,
     address |-> r.address,
     change_actions |-> r.actions,
     change_after |-> r.after]

\* the cache after lines 73-81
RegisterAddress(cache, r) ==
    LET bare == Put(cache, r.address, TFNodeId(r.type, r.address))
    IN  IF r.module_address # <<>>
        THEN Put(bare, r.module_address \o r.address, TFNodeId(r.type, r.address))
        ELSE bare

\* ResourceGraph(): no nodes, no edges (lines 18-19 of models.py)
NewGraph == [nodes |-> <<>>, edges |-> <<>>]

TFIdle ==
    /\ plan = <<>> /\ tpc = "idle" /\ ti = 0 /\ tnodes = <<>> /\ tedges = <<>>
    /\ tcache = <<>> /\ tread = FALSE /\ tpasses = 0 /\ tfirst = <<>>
    /\ tcalls = 0 /\ tprev = NewGraph /\ tret = NewGraph

\* parse_plan up to its first loop (lines 18-25): a fresh graph and cache
TFInit ==
    /\ family = "tf"
    /\ plan \in SeqsUpTo(TFResources, MaxResources)
    /\ tpc = "create" /\ ti = 1 /\ tnodes = <<>> /\ tedges = <<>>
    /\ tcache = <<>> /\ tread = FALSE /\ tpasses = 0 /\ tfirst = <<>>
    /\ tcalls = 1 /\ tprev = NewGraph /\ tret = NewGraph

\* _process_resource for the next entry of resource_changes
TFProcessResource ==
    /\ tpc = "create" /\ ti <= Len(plan)
    /\ LET r == plan[ti]
           nodes1 == Append(tnodes, TFNode(r))
           cache1 == RegisterAddress(tcache, r)
       IN  /\ tnodes' = nodes1
           /\ tcache' = cache1
           /\ tedges' = AddDependencyEdges(nodes1, cache1, tedges, TFNodeId(r.type, r.address),
                                           r.depends_on, "depends_on")
           /\ tread' = (tread \/ r.depends_on # <<>>)
    /\ ti' = ti + 1
    /\ UNCHANGED <<family, plan, tpc, tpasses, tfirst,
                   tcalls, tprev, tret,
                   kvars, hvars, evars, gvars, ovars, svars>>

\* parse_plan leaves its first loop and calls _find_implicit_dependencies
TFStartInference ==
    /\ tpc = "create" /\ ti > Len(plan)
    /\ tpc' = "infer" /\ ti' = 1
    /\ UNCHANGED <<family, plan, tnodes, tedges, tcache, tread, tpasses, tfirst,
                   tcalls, tprev, tret,
                   kvars, hvars, evars, gvars, ovars, svars>>

\* one iteration of _find_implicit_dependencies' loop over graph.nodes
TFScanNode ==
    /\ tpc = "infer" /\ ti <= Len(tnodes)
    /\ LET node == tnodes[ti]
       IN  IF node.change_actions = <<>> \/ node.change_after.k # "dict"
           THEN UNCHANGED <<tedges, tread>>
           ELSE \E refs \in Orders(ScanAttributes(node.change_after.v)) :
                    /\ tedges' = AddDependencyEdges(tnodes, tcache, tedges, node.id, refs,
                                                    "attribute_reference")
                    /\ tread' = (tread \/ refs # <<>>)
    /\ ti' = ti + 1
    /\ UNCHANGED <<family, plan, tpc, tnodes, tcache, tpasses, tfirst,
                   tcalls, tprev, tret,
                   kvars, hvars, evars, gvars, ovars, svars>>

\* _find_implicit_dependencies returns; the first time, parse_plan returns
\* the graph
TFReturn ==
    /\ tpc = "infer" /\ ti > Len(tnodes)
    /\ tpc' = "done"
    /\ tpasses' = tpasses + 1
    /\ tfirst' = IF tpasses = 0 THEN tedges ELSE tfirst
    /\ UNCHANGED <<family, plan, ti, tnodes, tedges, tcache, tread, tcalls, tprev, tret,
                   kvars, hvars, evars, gvars, ovars, svars>>

\* _find_implicit_dependencies called once more on the parser that has
\* returned its graph
TFInferAgain ==
    /\ family = "tf" /\ tpc = "done" /\ tpasses = 1
    /\ tpc' = "infer" /\ ti' = 1
    /\ UNCHANGED <<family, plan, tnodes, tedges, tcache, tread, tpasses, tfirst,
                   tcalls, tprev, tret,
                   kvars, hvars, evars, gvars, ovars, svars>>

\* the plans given to a parser that has parsed before
SecondPlans == {<<ResModRoute>>, <<ResVpc, ResSubnet>>}

\* parse_plan's entry (lines 15-25) with a bug: the state is cleared before
\* the input is looked at.
ParsePlanEntryClearFirst(has_changes, nodes, edges, cache) ==
    [raised |-> ~has_changes, nodes |-> <<>>, edges |-> <<>>, cache |-> <<>>,
     old |-> [nodes |-> nodes, edges |-> edges]]

\* parse_plan's entry with a bug: the cache of the run before is kept.
ParsePlanEntryKeepCache(has_changes, nodes, edges, cache) ==
    IF ~has_changes
    THEN [raised |-> TRUE, nodes |-> nodes, edges |-> edges, cache |-> cache,
          old |-> [nodes |-> nodes, edges |-> edges]]
    ELSE [raised |-> FALSE, nodes |-> <<>>, edges |-> <<>>, cache |-> cache,
          old |-> [nodes |-> nodes, edges |-> edges]]

\* parse_plan's entry (lines 15-25) on a parser whose self.graph holds nodes
\* and edges and whose _resource_cache is cache.  Without 'resource_changes'
\* it raises before it has assigned anything.  Otherwise self.graph is bound
\* to a new ResourceGraph and _resource_cache to a new dict; the object
\* self.graph named before (old) is not written.
ParsePlanEntry(has_changes, nodes, edges, cache) ==
    IF ~has_changes
    THEN [raised |-> TRUE, nodes |-> nodes, edges |-> edges, cache |-> cache,
          old |-> [nodes |-> nodes, edges |-> edges]]
    ELSE [raised |-> FALSE, nodes |-> NewGraph.nodes, edges |-> NewGraph.edges, cache |-> <<>>,
          old |-> [nodes |-> nodes, edges |-> edges]]

\* a call of parse_plan can begin: the call before has returned its graph or
\* raised
TFCallable ==
    /\ family = "tf" /\ tcalls < MaxCalls
    /\ (tpc = "done" /\ tpasses = 1) \/ tpc = "error"

\* parse_plan called again, with a plan that has a resource_changes list, up
\* to its first loop
TFParseAgain ==
    /\ TFCallable
    /\ \E p \in SecondPlans :
          LET entry == ParsePlanEntry(TRUE, tnodes, tedges, tcache)
          IN  /\ plan' = p
              /\ tnodes' = entry.nodes /\ tedges' = entry.edges /\ tcache' = entry.cache
              /\ tprev' = entry.old
    /\ tret' = [nodes |-> tnodes, edges |-> tedges]
    /\ tpc' = "create" /\ ti' = 1 /\ tread' = FALSE /\ tpasses' = 0 /\ tfirst' = <<>>
    /\ tcalls' = tcalls + 1
    /\ UNCHANGED <<family, kvars, hvars, evars, gvars, ovars, svars>>

\* parse_plan called with an input that has no 'resource_changes' key
\* (lines 15-16): ValueError
TFParseInvalid ==
    /\ TFCallable
    /\ LET entry == ParsePlanEntry(FALSE, tnodes, tedges, tcache)
       IN  /\ tnodes' = entry.nodes /\ tedges' = entry.edges /\ tcache' = entry.cache
           /\ tpc' = IF entry.raised THEN "error" ELSE "create"
    /\ tcalls' = tcalls + 1
    /\ UNCHANGED <<family, plan, ti, tread, tpasses, tfirst, tprev, tret,
                   kvars, hvars, evars, gvars, ovars, svars>>

TFNext ==
    \/ TFProcessResource \/ TFStartInference \/ TFScanNode \/ TFReturn \/ TFInferAgain
    \/ TFParseAgain \/ TFParseInvalid

\* ------------------------------------------------- Kubernetes: the inputs
\* A label map (metadata.labels, spec.selector) is the set of its
\* <<key, value>> items.  "" stands for an absent string field.
NoLabels == {}
AppWeb == {<<"app", "web">>}

\* {configMapRef|configMapKeyRef|configMap: {name: cm}, secretRef|...: {name: sec}}
Ref(cm, sec) == [cm |-> cm, sec |-> sec]
Container(envFrom, env) == [envFrom |-> envFrom, env |-> env]
\* a backend of an ingress path: form "nested" is {service: {name, namespace}},
\* form "flat" is {serviceName: name}
Backend(form, name, namespace) == [form |-> form, name |-> name, namespace |-> namespace]

\* error is what handling the document raises: "" (nothing), "AttributeError"
\* (kind is not a string or metadata is not a mapping: lines 48-52), or
\* "YAMLError" (the text of the document does not load: line 35).
Doc(kind, has_metadata, name, namespace, labels) ==
    [kind |-> kind, has_metadata |-> has_metadata, name |-> name,
     namespace |-> namespace, labels |-> labels, error |-> "",
     selector |-> NoLabels, backends |-> <<>>,
     containers |-> <<>>, volumes |-> <<>>,
     template_labels |-> NoLabels, template_containers |-> <<>>, template_volumes |-> <<>>]

DocService ==
    [Doc("Service", TRUE, "web", "", NoLabels) EXCEPT !.selector = AppWeb]

\* metadata.labels and the pod template's labels both carry app=web; two
\* containers name the same config map, and a volume names it again
DocDeployment ==
    [Doc("Deployment", TRUE, "web", "", AppWeb) EXCEPT
        !.template_labels = AppWeb,
        !.template_containers = <<Container(<<Ref("cfg", "")>>, <<Ref("", "creds")>>),
                                  Container(<<Ref("cfg", "creds")>>, <<>>)>>,
        !.template_volumes = <<Ref("cfg", "")>>]

\* app=web only on the pod template
DocDeploymentTemplate ==
    [Doc("Deployment", TRUE, "api", "default", NoLabels) EXCEPT !.template_labels = AppWeb]

\* app=web on a deployment of another namespace
DocDeploymentProd ==
    [Doc("Deployment", TRUE, "web", "prod", AppWeb) EXCEPT !.template_labels = AppWeb]

\* two paths name service web (one in each schema shape), one names a
\* service that no document declares, one names service web of another
\* namespace
DocIngress ==
    [Doc("Ingress", TRUE, "web", "", NoLabels) EXCEPT
        !.backends = <<Backend("nested", "web", ""), Backend("flat", "web", ""),
                       Backend("nested", "missing", "default"),
                       Backend("nested", "web", "prod")>>]

\* a config map that carries the label app=web
DocConfigMap == Doc("ConfigMap", TRUE, "cfg", "default", AppWeb)

DocSecret == Doc("Secret", TRUE, "creds", "", NoLabels)

DocPod ==
    [Doc("Pod", TRUE, "web", "", AppWeb) EXCEPT
        !.containers = <<Container(<<Ref("", "creds")>>, <<Ref("cfg", "")>>)>>,
        !.volumes = <<Ref("", "creds"), Ref("", "creds")>>]

\* a document with no metadata
DocNoMetadata == Doc("Service", FALSE, "", "", NoLabels)

\* kind: 123
DocKindNotString ==
    [Doc("123", TRUE, "web", "", NoLabels) EXCEPT !.error = "AttributeError"]

\* a document whose YAML text is malformed
DocMalformed ==
    [Doc("", FALSE, "", "", NoLabels) EXCEPT !.error = "YAMLError"]

K8sDocs ==
    {DocService, DocDeployment, DocDeploymentTemplate, DocDeploymentProd, DocIngress,
     DocConfigMap, DocSecret, DocPod, DocNoMetadata, DocKindNotString, DocMalformed}

RECURSIVE Splits(_)
\* Every way to hold a sequence of documents in one or more non-empty files.
Splits(ds) ==
    IF ds = <<>> THEN {<<>>}
    ELSE UNION {{<<SubSeq(ds, 1, n)>> \o rest : rest \in Splits(SubSeq(ds, n + 1, Len(ds)))}
                : n \in 1..Len(ds)}

K8sInputs == UNION {Splits(ds) : ds \in SeqsUpTo(K8sDocs, MaxDocs)}

\* ------------------------------------------------- Kubernetes: the parser
\* str.lower on the kinds the inputs use
Lower(kind) ==
    CASE kind = "Service" -> "service"
      [] kind = "Deployment" -> "deployment"
      [] kind = "Ingress" -> "ingress"
      [] kind = "ConfigMap" -> "configmap"
      [] kind = "Secret" -> "secret"
      [] kind = "Pod" -> "pod"
      [] OTHER -> kind

K8sNodeId(kind, namespace, name) ==
    [fam |-> "k8s", kind |-> kind, namespace |-> namespace, name |-> name]

\* the secondary cache key f"{namespace}/{name}"
K8sNameKey(namespace, name) == [namespace |-> namespace, name |-> name]

\* the Node that _process_resource builds (lines 49-70)
K8sNode(doc) ==
    LET kind == Lower(doc.kind)
        name == IF doc.name = "" THEN "unknown" ELSE doc.name
        namespace == IF doc.namespace = "" THEN "default" ELSE doc.namespace
    IN  [id |-> K8sNodeId(kind, namespace, name),
         type |-> kind,
         name |-> name,
         namespace |-> namespace,
         labels |-> doc.labels,
         spec |-> doc]

RECURSIVE K8sProcessResources(_, _)
\* _process_resource for each document of a file in turn (lines 37-39):
\* <<nodes, cache>> after them.  An exception raised by _process_resource
\* leaves the loop for the handler of line 41, so the documents after it
\* are not processed.
K8sProcessResources(docs, state) ==
    IF docs = <<>> THEN state
    ELSE LET doc == Head(docs)
             node == K8sNode(doc)
             after == IF doc.kind = "" \/ ~doc.has_metadata THEN state
                      ELSE <<Append(state[1], node),
                             Put(Put(state[2], node.id, node),
                                 K8sNameKey(node.namespace, node.name), node)>>
         IN  IF doc.kind # "" /\ doc.has_metadata /\ doc.error = "AttributeError" THEN state
             ELSE K8sProcessResources(Tail(docs), after)

\* list(yaml.safe_load_all(f)) (line 35) raises when any document of the
\* file does not load, before the loop over the documents begins
LoadFails(docs) == \E d \in DOMAIN docs : docs[d].error = "YAMLError"

RECURSIVE ParseAll(_, _)
\* parse_files' loop from the state <<nodes, cache>>
ParseAll(fs, state) ==
    IF fs = <<>> THEN state
    ELSE ParseAll(Tail(fs), IF LoadFails(Head(fs)) THEN state
                            ELSE K8sProcessResources(Head(fs), state))

\* the test of line 120 with a bug: every workload matches.
LabelsMatchAlways(labels, selector_labels) == TRUE

\* labels.get(k) == v for every item of the selector
LabelsMatch(labels, selector_labels) == \A item \in selector_labels : item \in labels

\* _find_workloads_by_labels
FindWorkloadsByLabels(nodes, selector_labels) ==
    SelectSeq(nodes, LAMBDA node :
        /\ node.type \in {"deployment", "statefulset", "daemonset", "pod"}
        /\ LabelsMatch(node.labels, selector_labels))

RECURSIVE SelectorEdges(_, _)
\* the edges _infer_service_selectors appends, in order
SelectorEdges(services, nodes) ==
    IF services = <<>> THEN <<>>
    ELSE LET service == Head(services)
             matching == IF service.spec.selector # {}
                         THEN FindWorkloadsByLabels(nodes, service.spec.selector)
                         ELSE <<>>
         IN  [n \in DOMAIN matching |-> Edge(service.id, matching[n].id, "selector_match")]
             \o SelectorEdges(Tail(services), nodes)

\* _infer_service_selectors
InferServiceSelectors(nodes) ==
    SelectorEdges(SelectSeq(nodes, LAMBDA node : node.type = "service"), nodes)

\* lines 140-147 with a bug: the namespace of the nested form is not read.
BackendServiceOwnNamespace(backend, ingress) ==
    [name |-> backend.name, namespace |-> ingress.namespace]

\* lines 140-147: the (name, namespace) a backend names
BackendService(backend, ingress) ==
    IF backend.form = "nested"
    THEN [name |-> backend.name,
          namespace |-> IF backend.namespace = "" THEN ingress.namespace ELSE backend.namespace]
    ELSE [name |-> backend.name, namespace |-> ingress.namespace]

\* _find_service with a bug: the service is taken to exist.
FindServiceAssumed(cache, name, namespace) ==
    [id |-> K8sNodeId("service", namespace, name)]

\* _find_service: the cached node, or None
FindService(cache, name, namespace) ==
    IF K8sNodeId("service", namespace, name) \in DOMAIN cache
    THEN cache[K8sNodeId("service", namespace, name)]
    ELSE None

RECURSIVE BackendEdges(_, _, _)
\* the edges the loop over one ingress's paths appends
BackendEdges(backends, ingress, cache) ==
    IF backends = <<>> THEN <<>>
    ELSE LET target == BackendService(Head(backends), ingress)
             service_node == IF target.name = "" THEN None
                             ELSE FindService(cache, target.name, target.namespace)
             here == IF service_node = None THEN <<>>
                     ELSE <<Edge(ingress.id, service_node.id, "ingress_backend")>>
         IN  here \o BackendEdges(Tail(backends), ingress, cache)

RECURSIVE IngressEdges(_, _)
IngressEdges(ingresses, cache) ==
    IF ingresses = <<>> THEN <<>>
    ELSE BackendEdges(Head(ingresses).spec.backends, Head(ingresses), cache)
         \o IngressEdges(Tail(ingresses), cache)

\* _infer_ingress_backends
InferIngressBackends(nodes, cache) ==
    IngressEdges(SelectSeq(nodes, LAMBDA node : node.type = "ingress"), cache)

\* f"{reason}_{config_type}"
ReasonName(reason, config_type) ==
    CASE reason = "envFrom" /\ config_type = "configmap" -> "envFrom_configmap"
      [] reason = "envFrom" /\ config_type = "secret" -> "envFrom_secret"
      [] reason = "env" /\ config_type = "configmap" -> "env_configmap"
      [] reason = "env" /\ config_type = "secret" -> "env_secret"
      [] reason = "volume" /\ config_type = "configmap" -> "volume_configmap"
      [] reason = "volume" /\ config_type = "secret" -> "volume_secret"

\* _add_config_reference: the edge it appends, if any
ConfigReference(cache, workload, config_name, config_type, reason) ==
    LET config_id == K8sNodeId(config_type, workload.namespace, config_name)
    IN  IF config_id \in DOMAIN cache
        THEN <<Edge(workload.id, cache[config_id].id, ReasonName(reason, config_type))>>
        ELSE <<>>

RECURSIVE RefEdges(_, _, _, _)
\* one of the loops over envFrom, env or volumes: for each entry the
\* config-map reference, then the secret reference
RefEdges(refs, cache, workload, reason) ==
    IF refs = <<>> THEN <<>>
    ELSE LET r == Head(refs)
             cm == IF r.cm # "" THEN ConfigReference(cache, workload, r.cm, "configmap", reason)
                   ELSE <<>>
             sec == IF r.sec # "" THEN ConfigReference(cache, workload, r.sec, "secret", reason)
                    ELSE <<>>
         IN  cm \o sec \o RefEdges(Tail(refs), cache, workload, reason)

RECURSIVE ContainerEdges(_, _, _)
\* the loop over containers (lines 181-206)
ContainerEdges(containers, cache, workload) ==
    IF containers = <<>> THEN <<>>
    ELSE RefEdges(Head(containers).envFrom, cache, workload, "envFrom")
         \o RefEdges(Head(containers).env, cache, workload, "env")
         \o ContainerEdges(Tail(containers), cache, workload)

\* _find_config_references_in_workload with a bug: a deployment is read
\* like a pod, not under its pod template.
FindConfigReferencesDirect(cache, workload) ==
    ContainerEdges(workload.spec.containers, cache, workload)
    \o RefEdges(workload.spec.volumes, cache, workload, "volume")

\* _find_config_references_in_workload
FindConfigReferencesInWorkload(cache, workload) ==
    LET containers == IF workload.type = "deployment"
                      THEN workload.spec.template_containers ELSE workload.spec.containers
        volumes == IF workload.type = "deployment"
                   THEN workload.spec.template_volumes ELSE workload.spec.volumes
    IN  ContainerEdges(containers, cache, workload)
        \o RefEdges(volumes, cache, workload, "volume")

RECURSIVE WorkloadEdges(_, _)
WorkloadEdges(workloads, cache) ==
    IF workloads = <<>> THEN <<>>
    ELSE FindConfigReferencesInWorkload(cache, Head(workloads))
         \o WorkloadEdges(Tail(workloads), cache)

\* _infer_config_references: pods, then deployments
InferConfigReferences(nodes, cache) ==
    WorkloadEdges(SelectSeq(nodes, LAMBDA node : node.type = "pod")
                  \o SelectSeq(nodes, LAMBDA node : node.type = "deployment"), cache)

\* whether _infer_ingress_backends reaches a cache lookup (line 150)
IngressReadsCache(nodes) ==
    \E n \in DOMAIN nodes :
        /\ nodes[n].type = "ingress"
        /\ \E b \in Range(nodes[n].spec.backends) : b.name # ""

\* whether _infer_config_references reaches a cache lookup (line 225)
ConfigReadsCache(nodes) ==
    \E n \in DOMAIN nodes :
        LET w == nodes[n]
            refs == IF w.type = "deployment"
                    THEN Concat([c \in DOMAIN w.spec.template_containers |->
                                    w.spec.template_containers[c].envFrom
                                    \o w.spec.template_containers[c].env])
                         \o w.spec.template_volumes
                    ELSE Concat([c \in DOMAIN w.spec.containers |->
                                    w.spec.containers[c].envFrom \o w.spec.containers[c].env])
                         \o w.spec.volumes
        IN  /\ w.type \in {"pod", "deployment"}
            /\ \E r \in Range(refs) : r.cm # "" \/ r.sec # ""

KIdle ==
    /\ files = <<>> /\ kpc = "idle" /\ kf = 0 /\ knodes = <<>> /\ kedges = <<>>
    /\ kcache = <<>> /\ kread = FALSE /\ kpasses = 0 /\ kfirst = <<>>
    /\ kcalls = 0 /\ kprev = NewGraph /\ kret = NewGraph

HIdle ==
    /\ chart = None /\ hpc = "idle" /\ hi = 0 /\ hnodes = <<>> /\ hedges = <<>>
    /\ hmeta = {"parser"}

\* parse_files up to its loop (lines 18-20): a fresh graph and cache
K8sInit ==
    /\ family = "k8s"
    /\ files \in K8sInputs
    /\ kpc = "parse" /\ kf = 1 /\ knodes = <<>> /\ kedges = <<>>
    /\ kcache = <<>> /\ kread = FALSE /\ kpasses = 0 /\ kfirst = <<>>
    /\ kcalls = 1 /\ kprev = NewGraph /\ kret = NewGraph

\* _parse_file for the next file
K8sParseFile ==
    /\ kpc = "parse" /\ kf <= Len(files)
    /\ LET after == IF LoadFails(files[kf]) THEN <<knodes, kcache>>
                    ELSE K8sProcessResources(files[kf], <<knodes, kcache>>)
       IN  knodes' = after[1] /\ kcache' = after[2]
    /\ kf' = kf + 1
    /\ UNCHANGED <<family, files, kpc, kedges, kread, kpasses, kfirst,
                   kcalls, kprev, kret,
                   tvars, hvars, evars, gvars, ovars, svars>>

\* parse_files leaves its loop and calls _infer_relationships
K8sStartInference ==
    /\ kpc = "parse" /\ kf > Len(files)
    /\ kpc' = "selectors"
    /\ UNCHANGED <<family, files, kf, knodes, kedges, kcache, kread, kpasses, kfirst,
                   kcalls, kprev, kret,
                   tvars, hvars, evars, gvars, ovars, svars>>

K8sInferServiceSelectors ==
    /\ kpc = "selectors"
    /\ kedges' = kedges \o InferServiceSelectors(knodes)
    /\ kpc' = "ingress"
    /\ UNCHANGED <<family, files, kf, knodes, kcache, kread, kpasses, kfirst,
                   kcalls, kprev, kret,
                   tvars, hvars, evars, gvars, ovars, svars>>

K8sInferIngressBackends ==
    /\ kpc = "ingress"
    /\ kedges' = kedges \o InferIngressBackends(knodes, kcache)
    /\ kread' = (kread \/ IngressReadsCache(knodes))
    /\ kpc' = "config"
    /\ UNCHANGED <<family, files, kf, knodes, kcache, kpasses, kfirst,
                   kcalls, kprev, kret,
                   tvars, hvars, evars, gvars, ovars, svars>>

\* _infer_config_references, after which _infer_relationships returns; the
\* first time, parse_files returns the graph
K8sInferConfigReferences ==
    /\ kpc = "config"
    /\ kedges' = kedges \o InferConfigReferences(knodes, kcache)
    /\ kread' = (kread \/ ConfigReadsCache(knodes))
    /\ kpc' = "done"
    /\ kpasses' = kpasses + 1
    /\ kfirst' = IF kpasses = 0 THEN kedges' ELSE kfirst
    /\ UNCHANGED <<family, files, kf, knodes, kcache, kcalls, kprev, kret,
                   tvars, hvars, evars, gvars, ovars, svars>>

\* _infer_relationships called once more on the parser that has returned
\* its graph
K8sInferAgain ==
    /\ family = "k8s" /\ kpc = "done" /\ kpasses = 1
    /\ kpc' = "selectors"
    /\ UNCHANGED <<family, files, kf, knodes, kedges, kcache, kread, kpasses, kfirst,
                   kcalls, kprev, kret,
                   tvars, hvars, evars, gvars, ovars, svars>>

\* the file lists given to a parser that has parsed before
SecondFiles == {<<<<DocIngress>>>>, <<<<DocService>>, <<DocDeployment>>>>}

\* parse_files' entry (lines 18-20): self.graph is bound to a new
\* ResourceGraph and _resource_cache to a new dict; the object self.graph
\* named before (old) is not written.
ParseFilesEntry(nodes, edges, cache) ==
    [nodes |-> NewGraph.nodes, edges |-> NewGraph.edges, cache |-> <<>>,
     old |-> [nodes |-> nodes, edges |-> edges]]

\* parse_files called again on the parser that has returned its graph, up
\* to its loop
K8sParseAgain ==
    /\ family = "k8s" /\ kpc = "done" /\ kpasses = 1 /\ kcalls < MaxCalls
    /\ files' \in SecondFiles
    /\ LET entry == ParseFilesEntry(knodes, kedges, kcache)
       IN  /\ knodes' = entry.nodes /\ kedges' = entry.edges /\ kcache' = entry.cache
           /\ kprev' = entry.old
    /\ kret' = [nodes |-> knodes, edges |-> kedges]
    /\ kpc' = "parse" /\ kf' = 1 /\ kread' = FALSE /\ kpasses' = 0 /\ kfirst' = <<>>
    /\ kcalls' = kcalls + 1
    /\ UNCHANGED <<family, tvars, hvars, evars, gvars, ovars, svars>>

\* ------------------------------------------------- Helm: the composition
\* parse_chart with KubernetesParser importable.  (When the import fails,
\* _parse_manifests_directly appends nodes only and no edge; that path is not
\* part of this model.)
\* What the collaborators answer for a chart.  ok: helm template gave
\* non-empty output; docs: the documents of that output; readable:
\* Chart.yaml was found and loaded; dependencies: the names of its
\* dependency records.
Chart(ok, docs, readable, dependencies) ==
    [ok |-> ok, docs |-> docs, readable |-> readable, dependencies |-> dependencies]

Descriptors == {<<FALSE, <<>>>>, <<TRUE, <<>>>>, <<TRUE, <<"redis">>>>, <<TRUE, <<"redis", "redis">>>>}

HelmCharts ==
    {Chart(TRUE, docs, d[1], d[2]) : docs \in SeqsUpTo(K8sDocs, MaxDocs), d \in Descriptors}
    \cup {Chart(FALSE, <<>>, d[1], d[2]) : d \in Descriptors}

\* lines 168-170 with a bug: the source written is not "helm".
HelmTagOther(node) == [source |-> "kubernetes"] @@ node

\* lines 168-170: the node with the chart's provenance in its attributes
HelmTag(node) == [source |-> "helm"] @@ node

\* the dependency Node of lines 286-297
DependencyNode(name) ==
    [id |-> [fam |-> "helm", kind |-> "dependency", name |-> name],
     type |-> "helm.dependency",
     name |-> name]

\* _extract_helm_metadata with a bug: chart_metadata is written whether or
\* not Chart.yaml was read.
ExtractHelmMetadataAlways(c, nodes, meta) ==
    [meta |-> meta \cup {"chart_metadata"},
     nodes |-> nodes \o [n \in DOMAIN c.dependencies |-> DependencyNode(c.dependencies[n])]]

\* _extract_helm_metadata: when Chart.yaml is found and loads, meta gets
\* chart_metadata and the graph one node per dependency record; when it is
\* absent or reading it raises (caught at line 306), nothing is written.
ExtractHelmMetadata(c, nodes, meta) ==
    IF c.readable
    THEN [meta |-> meta \cup {"chart_metadata"},
          nodes |-> nodes \o [n \in DOMAIN c.dependencies |->
                                 DependencyNode(c.dependencies[n])]]
    ELSE [meta |-> meta, nodes |-> nodes]

\* parse_chart up to the renderer's call (lines 34-42)
HelmInit ==
    /\ family = "helm"
    /\ chart \in HelmCharts
    /\ hpc = "render" /\ hi = 0 /\ hnodes = <<>> /\ hedges = <<>>
    /\ hmeta = {"parser", "chart_path", "values_files", "namespace", "release_name"}

\* _render_helm_chart returns.  Without output parse_chart returns its graph
\* (lines 48-50); with output _parse_rendered_manifests writes it to one file
\* and calls parse_files on a new KubernetesParser.
HelmRender ==
    /\ hpc = "render"
    /\ IF chart.ok
       THEN /\ hpc' = "merge" /\ hi' = 1
            /\ files' = <<chart.docs>> /\ kpc' = "parse" /\ kf' = 1
       ELSE /\ hpc' = "done"
            /\ UNCHANGED <<hi, files, kpc, kf>>
    /\ UNCHANGED <<family, chart, hnodes, hedges, hmeta, knodes, kedges, kcache, kread,
                   kpasses, kfirst, kcalls, kprev, kret, tvars, evars, gvars, ovars, svars>>

\* one iteration of the loop over k8s_graph.nodes (lines 166-171)
HelmMergeNode ==
    /\ hpc = "merge" /\ kpc = "done" /\ hi <= Len(knodes)
    /\ hnodes' = Append(hnodes, HelmTag(knodes[hi]))
    /\ hi' = hi + 1
    /\ UNCHANGED <<family, chart, hpc, hedges, hmeta, kvars, tvars, evars, gvars, ovars, svars>>

\* one iteration of the loop over k8s_graph.edges (lines 173-174)
HelmMergeEdge ==
    /\ hpc = "merge" /\ kpc = "done"
    /\ hi > Len(knodes) /\ hi <= Len(knodes) + Len(kedges)
    /\ hedges' = Append(hedges, kedges[hi - Len(knodes)])
    /\ hi' = hi + 1
    /\ UNCHANGED <<family, chart, hpc, hnodes, hmeta, kvars, tvars, evars, gvars, ovars, svars>>

\* _extract_helm_metadata, after which parse_chart returns its graph
HelmExtractMetadata ==
    /\ hpc = "merge" /\ kpc = "done" /\ hi > Len(knodes) + Len(kedges)
    /\ LET after == ExtractHelmMetadata(chart, hnodes, hmeta)
       IN  hmeta' = after.meta /\ hnodes' = after.nodes
    /\ hpc' = "done"
    /\ UNCHANGED <<family, chart, hi, hedges, kvars, tvars, evars, gvars, ovars, svars>>

\* the steps of parse_files
K8sRun ==
    \/ K8sParseFile \/ K8sStartInference \/ K8sInferServiceSelectors
    \/ K8sInferIngressBackends \/ K8sInferConfigReferences

K8sNext == K8sRun \/ K8sInferAgain \/ K8sParseAgain

HelmNext == HelmRender \/ K8sRun \/ HelmMergeNode \/ HelmMergeEdge \/ HelmExtractMetadata

\* ------------------------------------------------- specifications
\* no call of _extract_references_from_string, no ResourceGraph under test
EIdle == leaf = <<>> /\ epc = "idle" /\ extracted = {}
GIdle == graph = [nodes |-> <<>>, edges |-> <<>>, meta |-> {}]

\* no pass run outside parse_files, no request
OIdle == order = <<>>
SIdle ==
    /\ request = None /\ spc = "idle" /\ si = 0 /\ temp_paths = <<>> /\ disk = {}
    /\ status = 0

Init ==
    \/ TFInit /\ KIdle /\ HIdle /\ EIdle /\ GIdle /\ OIdle /\ SIdle
    \/ K8sInit /\ TFIdle /\ HIdle /\ EIdle /\ GIdle /\ OIdle /\ SIdle
    \/ HelmInit /\ TFIdle /\ KIdle /\ EIdle /\ GIdle /\ OIdle /\ SIdle

Next == TFNext \/ K8sNext \/ HelmNext

Spec == Init /\ [][Next]_vars

\* ------------------------------------------------- reference extraction
DataAddr == <<"data", "aws_ami", "ubuntu">>

\* the addresses the leaves name
RefAddresses == {VpcAddr, Network \o SubnetAddr, DataAddr}

\* ${a.id} and a.id for each address; ${var.x}; ${local.y}; ${10}; ${true.x};
\* ${module.network.x}; ${data.aws_ami}; ${aws_vpc}; ${10.0}; the dotted word
\* example.com; text without a dotted word
Tokens ==
    {Interp(a \o <<"id">>) : a \in RefAddresses}
    \cup {Bare(a \o <<"id">>) : a \in RefAddresses}
    \cup {Interp(<<"var", "x">>), Interp(<<"local", "y">>), Interp(<<"10">>),
          Interp(<<"true", "x">>), Interp(Network \o <<"x">>),
          Interp(<<"data", "aws_ami">>), Interp(<<"aws_vpc">>), Interp(<<"10", "0">>),
          Bare(<<"example", "com">>), Text}

Leaves == SeqsUpTo(Tokens, MaxTokens)

ExtractInit ==
    /\ family = "extract"
    /\ leaf \in Leaves /\ epc = "call" /\ extracted = {}
    /\ TFIdle /\ KIdle /\ HIdle /\ GIdle /\ OIdle /\ SIdle

\* _extract_references_from_string(leaf) returns
ExtractCall ==
    /\ epc = "call"
    /\ extracted' = ExtractReferences(leaf)
    /\ epc' = "done"
    /\ UNCHANGED <<family, leaf, tvars, kvars, hvars, gvars, ovars, svars>>

ExtractNext == ExtractCall

SpecExtract == ExtractInit /\ [][ExtractNext]_vars

\* ------------------------------------------------- the graph container
\* ResourceGraph.add_node with a bug: a node whose id the graph holds is
\* not appended.
add_node_unique(g, node) ==
    IF \E n \in DOMAIN g.nodes : g.nodes[n].id = node.id THEN g
    ELSE [g EXCEPT !.nodes = Append(@, node)]

\* ResourceGraph.add_node
add_node(g, node) == [g EXCEPT !.nodes = Append(@, node)]

\* ResourceGraph.add_edge
add_edge(g, edge) == [g EXCEPT !.edges = Append(@, edge)]

\* the arguments of the calls: two nodes; an edge each way between them and
\* an edge to an id that no node has
GraphNodes == {TFNode(ResVpc), TFNode(ResSubnet)}
GraphEdges ==
    {Edge(TFNodeId("aws_subnet", SubnetAddr), TFNodeId("aws_vpc", VpcAddr), "attribute_reference"),
     Edge(TFNodeId("aws_vpc", VpcAddr), TFNodeId("aws_subnet", SubnetAddr), "depends_on"),
     Edge(TFNodeId("aws_subnet", SubnetAddr), TFNodeId("aws_route", <<"aws_route", "r">>),
          "depends_on")}

\* ResourceGraph() followed by an assignment to meta, as the parsers'
\* constructors do
GraphInit ==
    /\ family = "graph"
    /\ graph \in {[nodes |-> <<>>, edges |-> <<>>, meta |-> m] : m \in {{}, {"parser"}}}
    /\ TFIdle /\ KIdle /\ HIdle /\ EIdle /\ OIdle /\ SIdle

GraphAddNode ==
    /\ family = "graph" /\ Len(graph.nodes) < MaxGraph
    /\ \E node \in GraphNodes : graph' = add_node(graph, node)
    /\ UNCHANGED <<family, tvars, kvars, hvars, evars, ovars, svars>>

GraphAddEdge ==
    /\ family = "graph" /\ Len(graph.edges) < MaxGraph
    /\ \E edge \in GraphEdges : graph' = add_edge(graph, edge)
    /\ UNCHANGED <<family, tvars, kvars, hvars, evars, ovars, svars>>

GraphNext == GraphAddNode \/ GraphAddEdge

SpecGraph == GraphInit /\ [][GraphNext]_vars

\* ------------------------------------------------- the inference passes
\* a pass of _infer_relationships with a bug: the ingress pass starts from
\* an empty edge list.
RunPassClearing(pass, nodes, edges, cache) ==
    CASE pass = "selectors" -> edges \o InferServiceSelectors(nodes)
      [] pass = "ingress" -> InferIngressBackends(nodes, cache)
      [] pass = "config" -> edges \o InferConfigReferences(nodes, cache)

\* one of the three calls of _infer_relationships: the pass appends its
\* edges with graph.add_edge
RunPass(pass, nodes, edges, cache) ==
    CASE pass = "selectors" -> edges \o InferServiceSelectors(nodes)
      [] pass = "ingress" -> edges \o InferIngressBackends(nodes, cache)
      [] pass = "config" -> edges \o InferConfigReferences(nodes, cache)

Passes == {"selectors", "ingress", "config"}

\* the documents of the file whose nodes the passes run over
PassDocs == {DocService, DocIngress, DocPod, DocSecret}

\* parse_files' loop has made the nodes and the cache of one file
PassesInit ==
    /\ family = "passes"
    /\ \E docs \in SeqsUpTo(PassDocs, MaxPassDocs) : files = <<docs>>
    /\ LET parsed == ParseAll(files, <<<<>>, <<>>>>)
       IN  knodes = parsed[1] /\ kcache = parsed[2]
    /\ kpc = "passes" /\ kf = 2 /\ kedges = <<>>
    /\ kread = FALSE /\ kpasses = 0 /\ kfirst = <<>>
    /\ kcalls = 1 /\ kprev = NewGraph /\ kret = NewGraph
    /\ order = <<>>
    /\ TFIdle /\ HIdle /\ EIdle /\ GIdle /\ SIdle

\* a pass that has not run yet runs
PassRun ==
    /\ family = "passes"
    /\ \E pass \in Passes \ Range(order) :
           /\ kedges' = RunPass(pass, knodes, kedges, kcache)
           /\ order' = Append(order, pass)
    /\ UNCHANGED <<family, files, kpc, kf, knodes, kcache, kread, kpasses, kfirst,
                   kcalls, kprev, kret, tvars, hvars, evars, gvars, svars>>

PassesNext == PassRun

SpecPasses == PassesInit /\ [][PassesNext]_vars

\* ------------------------------------------------- the upload handlers
\* The temporary copy of the i-th upload of a request, the temporary file
\* that holds the rendered manifests, and the directory a packed chart is
\* extracted into.
Upload(i) == <<"upload", i>>
Rendered == <<"rendered", 0>>
ChartDir == <<"chart_dir", 0>>

\* A request.  names[i] tells whether the i-th upload's filename has the
\* extension the endpoint asks for (for helm the first upload is the chart
\* and the others are values files, whose names are not tested); outcome is
\* what the try block does after the uploads are saved; rendered tells
\* whether helm template gave output.
Requests ==
    {[endpoint |-> "terraform", names |-> <<n>>, outcome |-> o, rendered |-> FALSE]
        : n \in BOOLEAN, o \in {"ok", "invalid_json", "error"}}
    \cup {[endpoint |-> "kubernetes", names |-> ns, outcome |-> o, rendered |-> FALSE]
        : ns \in SeqsUpTo(BOOLEAN, MaxUploads) \ {<<>>}, o \in {"ok", "error"}}
    \cup {[endpoint |-> "helm", names |-> <<n>> \o [v \in 1..k |-> TRUE], outcome |-> o,
           rendered |-> r]
        : n \in BOOLEAN, k \in 0..(MaxUploads - 1), o \in {"ok", "error"}, r \in BOOLEAN}

\* a handler is entered
ServerInit ==
    /\ family = "server"
    /\ request \in Requests
    /\ spc = "check" /\ si = 1 /\ temp_paths = <<>> /\ disk = {} /\ status = 0
    /\ order = <<>>
    /\ TFIdle /\ KIdle /\ HIdle /\ EIdle /\ GIdle

\* the test of the filename before anything is saved: parse_terraform
\* (lines 54-55) and parse_helm (lines 176-177) raise 400; parse_kubernetes
\* has no such test before its loop
ServerCheck ==
    /\ spc = "check"
    /\ IF request.endpoint \in {"terraform", "helm"} /\ ~request.names[1]
       THEN status' = 400 /\ spc' = "done"
       ELSE status' = status /\ spc' = "save"
    /\ UNCHANGED <<family, request, si, temp_paths, disk, tvars, kvars, hvars, evars, gvars,
                   ovars>>

\* the next upload is copied to a temporary file that is not deleted on
\* close (lines 58-61, 100-103, 184-195).  parse_kubernetes tests the
\* filename first and raises 400 from inside the loop (lines 97-98), which
\* is before its try statement.
ServerSaveUpload ==
    /\ spc = "save" /\ si <= Len(request.names)
    /\ IF request.endpoint = "kubernetes" /\ ~request.names[si]
       THEN /\ status' = 400 /\ spc' = "done"
            /\ UNCHANGED <<si, temp_paths, disk>>
       ELSE /\ disk' = disk \cup {Upload(si)}
            /\ temp_paths' = Append(temp_paths, Upload(si))
            /\ si' = si + 1
            /\ UNCHANGED <<status, spc>>
    /\ UNCHANGED <<family, request, tvars, kvars, hvars, evars, gvars, ovars>>

\* the try block of parse_terraform (lines 63-79, 81-84) and of
\* parse_kubernetes (lines 105-120): the response or the HTTPException
ServerParse ==
    /\ spc = "save" /\ si > Len(request.names)
    /\ request.endpoint \in {"terraform", "kubernetes"}
    /\ status' = CASE request.outcome = "ok" -> 200
                   [] request.outcome = "invalid_json" -> 400
                   [] request.outcome = "error" -> 500
    /\ spc' = "finally"
    /\ UNCHANGED <<family, request, si, temp_paths, disk, tvars, kvars, hvars, evars, gvars,
                   ovars>>

\* parse_helm calls parse_chart: without rendered output it returns its
\* graph (helm parser lines 48-50); with output _parse_rendered_manifests
\* writes it to a temporary file (lines 143-146)
ServerHelmRender ==
    /\ spc = "save" /\ si > Len(request.names)
    /\ request.endpoint = "helm"
    /\ IF request.rendered
       THEN disk' = disk \cup {Rendered} /\ spc' = "manifests" /\ status' = status
       ELSE /\ disk' = disk /\ spc' = "finally"
            /\ status' = IF request.outcome = "ok" THEN 200 ELSE 500
    /\ UNCHANGED <<family, request, si, temp_paths, tvars, kvars, hvars, evars, gvars, ovars>>

\* the rest of _parse_rendered_manifests: the parse and the merge, or an
\* exception that is caught, and the finally block that unlinks the file
\* (lines 148-187)
ServerHelmParseManifests ==
    /\ spc = "manifests"
    /\ disk' = disk \ {Rendered}
    /\ spc' = "metadata"
    /\ UNCHANGED <<family, request, si, temp_paths, status, tvars, kvars, hvars, evars, gvars,
                   ovars>>

\* _extract_helm_metadata makes a directory for the packed chart (the
\* handler's copy has the suffix .tgz) and extracts into it (lines 257-260)
ServerHelmOpenChart ==
    /\ spc = "metadata"
    /\ disk' = disk \cup {ChartDir}
    /\ spc' = "chart"
    /\ UNCHANGED <<family, request, si, temp_paths, status, tvars, kvars, hvars, evars, gvars,
                   ovars>>

\* the rest of _extract_helm_metadata, whose finally block removes the
\* directory (lines 261-312); parse_chart returns and parse_helm builds its
\* response or raises 500 (lines 210-224)
ServerHelmCloseChart ==
    /\ spc = "chart"
    /\ disk' = disk \ {ChartDir}
    /\ status' = IF request.outcome = "ok" THEN 200 ELSE 500
    /\ spc' = "finally"
    /\ UNCHANGED <<family, request, si, temp_paths, tvars, kvars, hvars, evars, gvars, ovars>>

\* the finally block of a handler (lines 85-86, 121-124, 227-235): the
\* saved copies are unlinked
ServerFinally ==
    /\ spc = "finally"
    /\ disk' = disk \ Range(temp_paths)
    /\ spc' = "done"
    /\ UNCHANGED <<family, request, si, temp_paths, status, tvars, kvars, hvars, evars, gvars,
                   ovars>>

ServerNext ==
    \/ ServerCheck \/ ServerSaveUpload \/ ServerParse \/ ServerHelmRender
    \/ ServerHelmParseManifests \/ ServerHelmOpenChart \/ ServerHelmCloseChart
    \/ ServerFinally

SpecServer == ServerInit /\ [][ServerNext]_vars

\* ------------------------------------------------- properties
UniqueIds(nodes) == \A a, b \in DOMAIN nodes : nodes[a].id = nodes[b].id => a = b

NodeIds(nodes) == {nodes[n].id : n \in DOMAIN nodes}

NoDanglingEdge(nodes, edges) ==
    \A e \in DOMAIN edges :
        edges[e].from_id \in NodeIds(nodes) /\ edges[e].to_id \in NodeIds(nodes)

NoDuplicateEdge(edges) == \A a, b \in DOMAIN edges : edges[a] = edges[b] => a = b

\* how many entries of the edge list are the edge e
Count(edges, e) == Cardinality({n \in DOMAIN edges : edges[n] = e})

\* parse_plan / parse_files has returned its graph and nothing ran since
TFReturned == tpc = "done" /\ tpasses = 1
K8sReturned == kpc = "done" /\ kpasses = 1

RECURSIVE StringLeaves(_)
\* every string leaf of a JSON value, at any nesting of dicts and lists
StringLeaves(x) ==
    IF x.k = "str" THEN {x.v}
    ELSE IF x.k \in {"dict", "list"} THEN UNION {StringLeaves(x.v[n]) : n \in DOMAIN x.v}
    ELSE {}

\* the string ${<address>.<attribute>}
IsInterpolationOf(toks, address) ==
    /\ Len(toks) = 1 /\ toks[1].k = "interp"
    /\ Len(toks[1].v) = Len(address) + 1
    /\ SubSeq(toks[1].v, 1, Len(address)) = address

\* a string that holds no dotted word
HoldsNoReference(toks) == \A n \in DOMAIN toks : Len(toks[n].v) < 2

\* C1: in every graph a parser returns, no two nodes have the same id.
C1_NodeIdsUnique ==
    /\ TFReturned => UniqueIds(tnodes)
    /\ K8sReturned => UniqueIds(knodes)
    /\ hpc = "done" => UniqueIds(hnodes)

\* C2: in every state of a parse, in each of the three graphs, both endpoints
\* of every edge are ids of nodes already in that graph.
C2_NoDanglingEdges ==
    /\ NoDanglingEdge(tnodes, tedges)
    /\ NoDanglingEdge(knodes, kedges)
    /\ NoDanglingEdge(hnodes, hedges)

\* C2's case: a Helm parse has returned a graph that holds merged edges and
\* dependency nodes.
C2_Witness ==
    /\ hpc = "done" /\ hedges # <<>>
    /\ \E n \in DOMAIN hnodes : hnodes[n].type = "helm.dependency"

\* C3: in every graph parse_files returns, no two edges have the same
\* (from_id, to_id, reason).
C3_K8sEdgesDistinct == K8sReturned => NoDuplicateEdge(kedges)

\* C4: the Terraform graph never holds two edges with the same
\* (from_id, to_id, reason), in the returned graph as in every state before.
C4_TFEdgesDistinct == NoDuplicateEdge(tedges)

\* C4's case: parse_plan has returned for a plan in which a resource names
\* the same target twice in depends_on and in several attribute leaves; the
\* graph holds one depends_on edge and one attribute_reference edge for the
\* pair.
C4_Witness ==
    /\ TFReturned
    /\ \E r \in Range(plan) :
          LET from == TFNodeId(r.type, r.address)
              to == TFNodeId("aws_vpc", VpcAddr)
          IN  /\ r = ResInstance
              /\ Count(tedges, Edge(from, to, "depends_on")) = 1
              /\ Count(tedges, Edge(from, to, "attribute_reference")) = 1

\* C5: after the inference passes have run a second time over the same
\* nodes, the edges are those the first run left: the same set of triples
\* and no edge more.
C5_InferenceIdempotent ==
    /\ (tpc = "done" /\ tpasses = 2) =>
          Range(tedges) = Range(tfirst) /\ Len(tedges) = Len(tfirst)
    /\ (kpc = "done" /\ kpasses = 2) =>
          Range(kedges) = Range(kfirst) /\ Len(kedges) = Len(kfirst)

\* C6: for a plan of two resources A and B, A without dependencies and B
\* holding (as its only reference) a string ${A.<attr>}, parse_plan returns 2
\* nodes and the single edge B -> A with reason attribute_reference.
C6_TwoResourceScenario ==
    \A a, b \in DOMAIN plan :
        LET A == plan[a]
            B == plan[b]
        IN  (/\ TFReturned /\ Len(plan) = 2 /\ a # b
             /\ A.depends_on = <<>> /\ B.depends_on = <<>>
             /\ \A s \in StringLeaves(A.after) : HoldsNoReference(s)
             /\ \E s \in StringLeaves(B.after) : IsInterpolationOf(s, A.address)
             /\ \A s \in StringLeaves(B.after) :
                    IsInterpolationOf(s, A.address) \/ HoldsNoReference(s))
            => /\ Len(tnodes) = 2
               /\ tedges = <<Edge(TFNodeId(B.type, B.address), TFNodeId(A.type, A.address),
                                  "attribute_reference")>>

\* C7: every depends_on entry that is the address of a resource of the plan
\* yields a depends_on edge in the returned graph, wherever the two resources
\* stand in the list.
C7_DependsOnEdges ==
    TFReturned =>
        \A a, b \in DOMAIN plan :
            plan[b].address \in Range(plan[a].depends_on) =>
                \E e \in DOMAIN tedges :
                    /\ tedges[e].from_id = TFNodeId(plan[a].type, plan[a].address)
                    /\ tedges[e].to_id.addr = plan[b].address
                    /\ tedges[e].reason = "depends_on"

\* node creation is not over: an entry of the input has yet to be processed
TFCreating == tpc = "create" /\ ti <= Len(plan)
K8sCreating == kpc = "parse" /\ kf <= Len(files)

\* C8: while node creation is not over no edge has been appended and the
\* cache has not been read; once the cache has been read it is not written.
C8_PhasesOrdered ==
    /\ [](TFCreating => tedges = <<>> /\ ~tread)
    /\ [](K8sCreating => kedges = <<>> /\ ~kread)
    /\ [][tread => tcache' = tcache]_vars
    /\ [][kread => kcache' = kcache]_vars

\* the references of a node's post-change attributes: those of every string
\* leaf of the tree
ReferencesOf(node) ==
    UNION {ExtractReferences(s) : s \in StringLeaves(node.change_after)}

\* C9: when a node of module M names a bare address X in its post-change
\* attributes and the cache holds the spelling M.X, the returned graph holds
\* exactly one attribute_reference edge from that node to the node the
\* cache gives for the reference.
C9_ModuleQualification ==
    TFReturned =>
        \A n \in DOMAIN tnodes : \A X \in ReferencesOf(tnodes[n]) :
            LET M == tnodes[n].namespace
                to == IF X \in DOMAIN tcache THEN tcache[X] ELSE tcache[M \o X]
            IN  (M # Root /\ ~StartsWithModule(X) /\ (M \o X) \in DOMAIN tcache)
                => Count(tedges, Edge(tnodes[n].id, to, "attribute_reference")) = 1

\* C10: for a service with a non-empty selector and a deployment of the same
\* namespace whose pod-template labels hold every selector item, the
\* returned graph holds exactly one selector_match edge from the service to
\* the deployment.
C10_SelectorScenario ==
    K8sReturned =>
        \A s, d \in DOMAIN knodes :
            (/\ knodes[s].type = "service" /\ knodes[s].spec.selector # {}
             /\ knodes[d].type = "deployment"
             /\ knodes[d].namespace = knodes[s].namespace
             /\ LabelsMatch(knodes[d].spec.template_labels, knodes[s].spec.selector))
            => Count(kedges, Edge(knodes[s].id, knodes[d].id, "selector_match")) = 1

\* the nodes of a Helm graph that stand for rendered resources
ResourceNodes(nodes) == SelectSeq(nodes, LAMBDA node : node.type # "helm.dependency")

\* the keys parse_chart writes into meta from its arguments (lines 35-41)
ArgumentKeys == {"parser", "chart_path", "values_files", "namespace", "release_name"}

\* C11: when the renderer gives no output and Chart.yaml is readable, the
\* graph parse_chart returns has no resource node and its meta holds
\* chart_metadata.
C11_EmptyRenderKeepsMetadata ==
    (hpc = "done" /\ ~chart.ok /\ chart.readable)
        => ResourceNodes(hnodes) = <<>> /\ "chart_metadata" \in hmeta

\* C12: when the renderer or the reader of Chart.yaml gives nothing, the
\* meta of the graph parse_chart returns holds a record of the failure: a
\* key besides those copied from the arguments and chart_metadata.
C12_FailureRecorded ==
    (hpc = "done" /\ (~chart.ok \/ ~chart.readable))
        => hmeta \ (ArgumentKeys \cup {"chart_metadata"}) # {}

\* a document that _process_resource makes a node of when it is called
MakesNode(doc) == doc.error = "" /\ doc.kind # "" /\ doc.has_metadata

\* the positions of the input's documents that make a node
NodeDocuments(fs) ==
    UNION {{<<f, d>> : d \in {x \in DOMAIN fs[f] : MakesNode(fs[f][x])}} : f \in DOMAIN fs}

\* C13: every document of the input that makes a node on its own is a node
\* of the graph parse_files returns, whatever a sibling document raises: the
\* graph holds one node for each such document.
C13_DocumentsIsolated ==
    K8sReturned => Len(knodes) = Cardinality(NodeDocuments(files))

\* the addresses a resource names under an edge reason
Targets(r, reason) ==
    IF reason = "depends_on" THEN Range(r.depends_on)
    ELSE UNION {ExtractReferences(leafs) : leafs \in StringLeaves(r.after)}

\* the references _find_implicit_dependencies takes from a node
ScannedReferences(node) ==
    IF node.change_actions = <<>> \/ node.change_after.k # "dict" THEN {}
    ELSE UNION Range(ScanAttributes(node.change_after.v))

\* the references to config maps and secrets that a workload holds, each
\* with the place that holds it
WorkloadRefs(w) ==
    LET containers == IF w.type = "deployment"
                      THEN w.spec.template_containers ELSE w.spec.containers
        volumes == IF w.type = "deployment" THEN w.spec.template_volumes ELSE w.spec.volumes
    IN  UNION {{<<"envFrom", r>> : r \in Range(c.envFrom)} \cup {<<"env", r>> : r \in Range(c.env)}
               : c \in Range(containers)}
        \cup {<<"volume", r>> : r \in Range(volumes)}

\* a lookup of the node id: the edge is there when a node has the id, and no
\* such edge is there when none has
EdgeIffNode(nodes, edges, from, id, reason) ==
    IF id \in NodeIds(nodes) THEN Count(edges, Edge(from, id, reason)) >= 1
    ELSE Count(edges, Edge(from, id, reason)) = 0

\* the spellings under which _process_resource registers a resource
Spellings(r) ==
    {r.address} \cup (IF r.module_address # <<>> THEN {r.module_address \o r.address} ELSE {})

\* C14: a resolution miss yields no edge and does not end the parse.  The
\* returned Terraform graph holds a node for every resource; each of its
\* edges goes to a node registered under an address its source names (as
\* written or module-qualified), and every scanned reference that resolves
\* has its edge.  In the returned Kubernetes graph every ingress backend,
\* config-map reference and secret reference has its edge when a node has
\* the id looked up, and no edge when none has.
C14_MissYieldsNoEdge ==
    /\ TFReturned =>
          /\ Len(tnodes) = Len(plan)
          /\ \A e \in DOMAIN tedges : \E n \in DOMAIN tnodes :
                 /\ tnodes[n].id = tedges[e].from_id
                 /\ \E t \in Targets(plan[n], tedges[e].reason) :
                        \E key \in {t, tnodes[n].namespace \o t} : \E m \in DOMAIN plan :
                            /\ key \in Spellings(plan[m])
                            /\ TFNodeId(plan[m].type, plan[m].address) = tedges[e].to_id
          /\ \A n \in DOMAIN tnodes : \A t \in ScannedReferences(tnodes[n]) :
                 LET id == FindTargetNode(tnodes, tcache, tnodes[n].id, t)
                 IN  id # None => Count(tedges, Edge(tnodes[n].id, id, "attribute_reference")) = 1
    /\ K8sReturned =>
          \A n \in DOMAIN knodes :
              LET node == knodes[n]
              IN  /\ node.type = "ingress" =>
                        \A b \in Range(node.spec.backends) :
                            LET target == BackendService(b, node)
                            IN  b.name # "" =>
                                  EdgeIffNode(knodes, kedges, node.id,
                                      K8sNodeId("service", target.namespace, target.name),
                                      "ingress_backend")
                  /\ node.type \in {"pod", "deployment"} =>
                        \A ref \in WorkloadRefs(node) :
                            /\ ref[2].cm # "" =>
                                  EdgeIffNode(knodes, kedges, node.id,
                                      K8sNodeId("configmap", node.namespace, ref[2].cm),
                                      ReasonName(ref[1], "configmap"))
                            /\ ref[2].sec # "" =>
                                  EdgeIffNode(knodes, kedges, node.id,
                                      K8sNodeId("secret", node.namespace, ref[2].sec),
                                      ReasonName(ref[1], "secret"))

\* C14's case: parse_files has returned for an ingress that names a service
\* no document declares and a service that one declares; the graph holds
\* the edge to the declared service.
C14_Witness ==
    /\ K8sReturned
    /\ \E n \in DOMAIN knodes :
          /\ knodes[n].spec = DocIngress
          /\ K8sNodeId("service", "default", "missing") \notin NodeIds(knodes)
          /\ Count(kedges, Edge(knodes[n].id, K8sNodeId("service", "default", "web"),
                                "ingress_backend")) >= 1

\* C15: a call of parse_plan that raises for an input without
\* resource_changes returns no graph and leaves the parser's graph and
\* cache as they were before the call.
C15_InvalidInputLeavesState ==
    [][tpc' = "error" =>
          /\ tnodes' = tnodes /\ tedges' = tedges /\ tcache' = tcache
          /\ tpasses' = tpasses /\ tprev' = tprev]_vars

\* C15's case: parse_plan has raised on a parser whose graph holds nodes and
\* edges and whose cache holds addresses.
C15_Witness == tpc = "error" /\ tnodes # <<>> /\ tedges # <<>> /\ DOMAIN tcache # {}

RECURSIVE CreateAll(_, _)
\* parse_plan's first loop from the state <<nodes, edges, cache>>
CreateAll(rs, state) ==
    IF rs = <<>> THEN state
    ELSE LET r == Head(rs)
             nodes1 == Append(state[1], TFNode(r))
             cache1 == RegisterAddress(state[3], r)
         IN  CreateAll(Tail(rs),
                 <<nodes1,
                   AddDependencyEdges(nodes1, cache1, state[2], TFNodeId(r.type, r.address),
                                      r.depends_on, "depends_on"),
                   cache1>>)

RECURSIVE ScanAll(_, _, _, _)
\* _find_implicit_dependencies from node n on, the references of each leaf
\* taken in one of their orders
ScanAll(n, nodes, edges, cache) ==
    IF n > Len(nodes) THEN edges
    ELSE LET node == nodes[n]
             targets == IF node.change_actions = <<>> \/ node.change_after.k # "dict" THEN <<>>
                        ELSE CHOOSE o \in Orders(ScanAttributes(node.change_after.v)) : TRUE
         IN  ScanAll(n + 1, nodes,
                     AddDependencyEdges(nodes, cache, edges, node.id, targets,
                                        "attribute_reference"),
                     cache)

\* what parse_plan gives for a plan on a parser just constructed
FreshParsePlan(p) ==
    LET created == CreateAll(p, <<<<>>, <<>>, <<>>>>)
    IN  [nodes |-> created[1],
         edges |-> ScanAll(1, created[1], created[2], created[3]),
         cache |-> created[3]]

\* what parse_files gives for a list of files on a parser just constructed
FreshParseFiles(fs) ==
    LET parsed == ParseAll(fs, <<<<>>, <<>>>>)
    IN  [nodes |-> parsed[1],
         edges |-> InferServiceSelectors(parsed[1])
                   \o InferIngressBackends(parsed[1], parsed[2])
                   \o InferConfigReferences(parsed[1], parsed[2]),
         cache |-> parsed[2]]

\* C16: the graph a call of parse_plan or parse_files returns, and the cache
\* it leaves, are those a parser just constructed gives for the same input,
\* whatever the parser has parsed before; and the graph the call before
\* returned is as it was when it was returned.
C16_RunsShareNoState ==
    /\ TFReturned =>
          LET fresh == FreshParsePlan(plan)
          IN  /\ tnodes = fresh.nodes
              /\ Range(tedges) = Range(fresh.edges)
              /\ tcache = fresh.cache
    /\ K8sReturned =>
          LET fresh == FreshParseFiles(files)
          IN  /\ knodes = fresh.nodes
              /\ Range(kedges) = Range(fresh.edges)
              /\ kcache = fresh.cache
    /\ tprev = tret
    /\ kprev = kret

\* C16's case: a parser whose first plan registered aws_subnet.public and
\* gave edges has returned from a second call, for a plan whose only
\* resource names aws_subnet.public and gets no edge.
C16_Witness ==
    /\ TFReturned /\ tcalls = 2
    /\ plan = <<ResModRoute>> /\ tedges = <<>>
    /\ tret.edges # <<>>
    /\ \E n \in DOMAIN tret.nodes : tret.nodes[n].address = SubnetAddr

\* C17: add_node and add_edge append their argument and touch nothing else,
\* whatever the graph holds: a node whose id is there already, an edge that
\* is there already and an edge to an id no node has are appended too.
C17_AppendOnlyContainer ==
    /\ \A node \in GraphNodes :
          add_node(graph, node) =
              [nodes |-> Append(graph.nodes, node), edges |-> graph.edges, meta |-> graph.meta]
    /\ \A edge \in GraphEdges :
          add_edge(graph, edge) =
              [nodes |-> graph.nodes, edges |-> Append(graph.edges, edge), meta |-> graph.meta]

\* C17's case: calls of add_node and add_edge have given a graph with two
\* nodes of one id and the same edge twice, an edge whose target is no
\* node.
C17_Witness ==
    /\ Len(graph.nodes) = 2 /\ graph.nodes[1].id = graph.nodes[2].id
    /\ Len(graph.edges) = 2 /\ graph.edges[1] = graph.edges[2]
    /\ graph.edges[1].to_id \notin NodeIds(graph.nodes)
    /\ graph.meta = {"parser"}

\* the string has a token of this kind
HasToken(toks, kind) == \E n \in DOMAIN toks : toks[n].k = kind

\* C18: for an address a whose first segment passes the bare-form
\* heuristic, the strings ${a.id} and a.id both give the single reference
\* a; and a string that holds an interpolation and a bare word gives the
\* references of its interpolations only.
C18_SpellingsAgree ==
    epc = "done" =>
        /\ \A a \in RefAddresses :
              (IsLikelyReference(a)
               /\ (leaf = <<Interp(a \o <<"id">>)>> \/ leaf = <<Bare(a \o <<"id">>)>>))
              => extracted = {a}
        /\ (HasToken(leaf, "interp") /\ HasToken(leaf, "bare"))
              => extracted =
                   {CleanReference(leaf[n].v) : n \in {m \in DOMAIN leaf : leaf[m].k = "interp"}}
                   \ {NoRef}

\* C19: in the returned graph, every reference held by a string leaf of a
\* node's post-change attributes, at any nesting of dicts and lists and
\* whatever the node's change actions, that resolves to a node has its
\* attribute_reference edge from the node.
C19_DiscoveryComplete ==
    TFReturned =>
        \A n \in DOMAIN tnodes : \A t \in ReferencesOf(tnodes[n]) :
            LET id == FindTargetNode(tnodes, tcache, tnodes[n].id, t)
            IN  id # None => Count(tedges, Edge(tnodes[n].id, id, "attribute_reference")) >= 1

\* target resolution as its four rules state it, for a node of namespace ns
Resolve(ns, t, cache) ==
    IF t \in DOMAIN cache THEN cache[t]
    ELSE IF StartsWithModule(t) THEN None
    ELSE IF ns # Root /\ (ns \o t) \in DOMAIN cache THEN cache[ns \o t]
    ELSE None

\* every address the plan names, in depends_on or in a string leaf
PlanTargets ==
    UNION {Range(plan[m].depends_on) \cup Targets(plan[m], "attribute_reference")
           : m \in DOMAIN plan}

\* C20: for every node of the graph and every address the plan names,
\* _find_target_node called for the node gives what the four rules give for
\* the node's namespace; what it gives is unresolved or a value of the
\* cache.
C20_TargetResolution ==
    \A n \in DOMAIN tnodes : \A t \in PlanTargets :
        LET got == FindTargetNode(tnodes, tcache, tnodes[n].id, t)
        IN  /\ got = Resolve(tnodes[n].namespace, t, tcache)
            /\ got # None => got \in Range(tcache)

\* the cleaning rules as a table over the segments p of a candidate
CleaningRule(p) ==
    CASE Len(p) < 2 -> NoRef
      [] Len(p) >= 2 /\ p[1] \in {"true", "false", "null", "var", "local"} -> NoRef
      [] Len(p) >= 2 /\ p[1] = "module" -> IF Len(p) < 4 THEN NoRef ELSE SubSeq(p, 1, 4)
      [] Len(p) >= 2 /\ p[1] = "data" -> IF Len(p) < 3 THEN NoRef ELSE SubSeq(p, 1, 3)
      [] OTHER -> SubSeq(p, 1, 2)

C22_InterpolationSuppressesBare ==
    (epc = "done" /\ InterpolationMatches(leaf) # {})
        => extracted \subseteq {CleanReference(m) : m \in InterpolationMatches(leaf)}

WorkloadTypes == {"deployment", "statefulset", "daemonset", "pod"}

\* service s selects node w
Selects(s, w) ==
    /\ s.type = "service" /\ s.spec.selector # {}
    /\ w.type \in WorkloadTypes
    /\ \A item \in s.spec.selector : item \in w.labels

C24_SelectorSameNamespace ==
    \A e \in DOMAIN kedges :
        kedges[e].reason = "selector_match"
        => kedges[e].from_id.namespace = kedges[e].to_id.namespace

\* the (namespace, name) that a backend of an ingress of namespace ns names
BackendNamespace(b, ns) == IF b.form = "nested" /\ b.namespace # "" THEN b.namespace ELSE ns

\* the backends, over all ingress nodes with the id, that name service sid
BackendHits(id, sid) ==
    UNION {{<<n, b>> : b \in {x \in DOMAIN knodes[n].spec.backends :
                          LET back == knodes[n].spec.backends[x]
                          IN  /\ back.name # ""
                              /\ sid = K8sNodeId("service",
                                         BackendNamespace(back, knodes[n].namespace),
                                         back.name)}}
           : n \in {m \in DOMAIN knodes : knodes[m].type = "ingress" /\ knodes[m].id = id}}

\* the ids of the service nodes
ServiceIds == {knodes[n].id : n \in {m \in DOMAIN knodes : knodes[m].type = "service"}}

\* C25: in the returned graph an ingress has one ingress_backend edge to a
\* service id for each of its backends that names the service (the nested
\* form by service.name in service.namespace or, without one, the ingress's
\* namespace; the flat form by serviceName in the ingress's namespace) when
\* a service node has that id, and none when no service node has it; every
\* ingress_backend edge goes from an ingress to a service node.
C25_IngressBackends ==
    K8sReturned =>
        /\ \A n \in DOMAIN knodes : \A ns \in {"default", "prod"}, name \in {"web", "missing"} :
               LET sid == K8sNodeId("service", ns, name)
               IN  knodes[n].type = "ingress"
                   => Count(kedges, Edge(knodes[n].id, sid, "ingress_backend"))
                        = IF sid \in ServiceIds
                          THEN Cardinality(BackendHits(knodes[n].id, sid)) ELSE 0
        /\ \A e \in DOMAIN kedges :
               kedges[e].reason = "ingress_backend"
               => /\ kedges[e].to_id \in ServiceIds
                  /\ BackendHits(kedges[e].from_id, kedges[e].to_id) # {}

\* C25's case: an ingress of namespace default whose backends name service
\* web in both forms, a service that is missing, and service web of
\* namespace prod was parsed with service web of namespace default; the
\* edges are the two to that service.
C25_Witness ==
    /\ K8sReturned
    /\ files = <<<<DocService, DocIngress>>>>
    /\ kedges = <<Edge(K8sNode(DocIngress).id, K8sNode(DocService).id, "ingress_backend"),
                  Edge(K8sNode(DocIngress).id, K8sNode(DocService).id, "ingress_backend")>>

ConfigReasons ==
    {ReasonName(place, kind) : place \in {"envFrom", "env", "volume"}, kind \in {"configmap", "secret"}}

\* workload w holds, at the place and for the kind that the reason names,
\* a reference to the name
HoldsReference(w, reason, name) ==
    \E ref \in WorkloadRefs(w) :
        \/ ref[2].cm = name /\ reason = ReasonName(ref[1], "configmap")
        \/ ref[2].sec = name /\ reason = ReasonName(ref[1], "secret")

\* C26: in the returned graph every edge with a config reference reason
\* goes from a pod or deployment to a node of the kind the reason names, of
\* the workload's namespace and of a name the workload references at the
\* place the reason names (a deployment under its pod template, a pod
\* directly); and every such reference to a node of the graph has its edge.
C26_ConfigReferences ==
    K8sReturned =>
        /\ \A e \in DOMAIN kedges :
               kedges[e].reason \in ConfigReasons
               => /\ kedges[e].to_id \in NodeIds(knodes)
                  /\ \E kind \in {"configmap", "secret"}, place \in {"envFrom", "env", "volume"} :
                         /\ kedges[e].reason = ReasonName(place, kind)
                         /\ kedges[e].to_id.kind = kind
                  /\ \E n \in DOMAIN knodes :
                         /\ knodes[n].id = kedges[e].from_id
                         /\ knodes[n].type \in {"pod", "deployment"}
                         /\ kedges[e].to_id.namespace = knodes[n].namespace
                         /\ HoldsReference(knodes[n], kedges[e].reason, kedges[e].to_id.name)
        /\ \A n \in DOMAIN knodes : \A reason \in ConfigReasons, name \in {"cfg", "creds"} :
               \A kind \in {"configmap", "secret"} :
                   (/\ knodes[n].type \in {"pod", "deployment"}
                    /\ HoldsReference(knodes[n], reason, name)
                    /\ \E place \in {"envFrom", "env", "volume"} : reason = ReasonName(place, kind)
                    /\ K8sNodeId(kind, knodes[n].namespace, name) \in NodeIds(knodes))
                   => Count(kedges, Edge(knodes[n].id,
                                         K8sNodeId(kind, knodes[n].namespace, name), reason)) >= 1

\* C26's case: a deployment whose pod template names config map cfg in
\* envFrom and in a volume was parsed with the config map.
C26_Witness ==
    /\ K8sReturned
    /\ files = <<<<DocConfigMap, DocDeployment>>>>
    /\ Range(kedges) =
         {Edge(K8sNode(DocDeployment).id, K8sNode(DocConfigMap).id, "envFrom_configmap"),
          Edge(K8sNode(DocDeployment).id, K8sNode(DocConfigMap).id, "volume_configmap")}

\* C27: when the three inference passes have run over a node set, in
\* whatever order, the edges are those that the order of
\* _infer_relationships gives, each as many times; and at every point the
\* nodes and the cache are those that the parse made.
C27_PassesOrderIndependent ==
    LET parsed == ParseAll(files, <<<<>>, <<>>>>)
        fresh == FreshParseFiles(files)
    IN  /\ knodes = parsed[1] /\ kcache = parsed[2]
        /\ Len(order) = 3 =>
              /\ Range(kedges) = Range(fresh.edges)
              /\ \A e \in Range(fresh.edges) : Count(kedges, e) = Count(fresh.edges, e)

\* C27's case: the passes ran in the reverse of the code's order over an
\* ingress, a service, a pod and a secret, and each pass gave an edge
C27_Witness ==
    /\ order = <<"config", "ingress", "selectors">>
    /\ files = <<<<DocIngress, DocService, DocPod, DocSecret>>>>
    /\ \A reason \in {"selector_match", "ingress_backend", "envFrom_secret"} :
           \E e \in DOMAIN kedges : kedges[e].reason = reason

\* the ids of the helm.dependency nodes
DependencyIds ==
    {hnodes[n].id : n \in {m \in DOMAIN hnodes : hnodes[m].type = "helm.dependency"}}

\* C28: when the renderer gave output and parse_chart has returned, the
\* nodes of its graph are the nodes of the Kubernetes parser's graph in
\* their order, each with source "helm" in its attributes, followed by one
\* helm.dependency node for each dependency the chart declares, in their
\* order; its edges are the Kubernetes parser's edges; no edge has the id
\* of a helm.dependency node at either end.
C28_HelmMerge ==
    (family = "helm" /\ hpc = "done" /\ chart.ok) =>
        /\ Len(hnodes) = Len(knodes) + Len(chart.dependencies)
        /\ \A n \in DOMAIN knodes :
               /\ hnodes[n].source = "helm"
               /\ \A field \in DOMAIN knodes[n] : hnodes[n][field] = knodes[n][field]
        /\ \A d \in DOMAIN chart.dependencies :
               /\ hnodes[Len(knodes) + d].type = "helm.dependency"
               /\ hnodes[Len(knodes) + d].name = chart.dependencies[d]
        /\ hedges = kedges
        /\ \A e \in DOMAIN hedges :
               hedges[e].from_id \notin DependencyIds /\ hedges[e].to_id \notin DependencyIds

\* C28's case: a chart that renders a service and a pod it selects and
\* declares the dependency redis has been parsed
C28_Witness ==
    /\ family = "helm" /\ hpc = "done"
    /\ chart = Chart(TRUE, <<DocService, DocPod>>, TRUE, <<"redis">>)
    /\ Len(hnodes) = 3 /\ Len(hedges) = 1

\* C29: when Chart.yaml is absent or unreadable, parse_chart returns a
\* graph whose nodes are the tagged nodes of the rendered manifests, whose
\* edges are their edges, without a helm.dependency node and without
\* chart_metadata in meta.
C29_DescriptorUnreadable ==
    (family = "helm" /\ hpc = "done" /\ ~chart.readable) =>
        /\ hnodes = [n \in DOMAIN knodes |-> [source |-> "helm"] @@ knodes[n]]
        /\ hedges = kedges
        /\ DependencyIds = {}
        /\ "chart_metadata" \notin hmeta

\* C29's case: a chart without a readable Chart.yaml that renders a service
\* and a pod it selects has been parsed
C29_Witness ==
    /\ family = "helm" /\ hpc = "done"
    /\ chart = Chart(TRUE, <<DocService, DocPod>>, FALSE, <<>>)
    /\ Len(hnodes) = 2 /\ Len(hedges) = 1

\* C30: when a handler has returned or raised, no temporary file or
\* directory made for the request exists.
C30_TempFilesDeleted == spc = "done" => disk = {}

=============================================================================
